---- MODULE Spec2Model ----
(***************************************************************************)
(* A model of the RuTaBERT training pipeline: the Trainer of               *)
(* trainer/trainer.py (epoch loop, best-metric tracking, checkpoint save   *)
(* and load) and the helpers collate, prepare_device and get_token_logits  *)
(* of utils/functions.py.                                                  *)
(*                                                                         *)
(* Abstractions.  The model's parameters are represented by the number of  *)
(* optimizer steps applied to the pretrained weights, the optimizer state  *)
(* by its step count and the number of scheduler steps applied to its      *)
(* learning rate.  loss_fn and metric_fn are arguments of the Trainer and   *)
(* functions of the parameters and the data.  The trainer only records     *)
(* the losses and the training metrics, it never reads them: each is       *)
(* represented by the parameters' version it was computed from, so that    *)
(* the values of different epochs differ.  The trainer compares the        *)
(* validation metrics with the best values: metric_fn returns a mapping    *)
(* keyed by the names of config["metrics"], in their order, and on the     *)
(* validation pass it returns any value of MetricValues for each name.     *)
(* The Trainer is the one its own code expects: it is given a logger, and  *)
(* a metric_fn of three arguments that returns such a mapping.  Logging    *)
(* changes no state of the trainer and is left out.  The clock is read by  *)
(* _save_checkpoint alone, for the name of a periodic checkpoint, at the   *)
(* resolution of one second.                                               *)
(***************************************************************************)
EXTENDS Integers, Sequences, FiniteSets, TLC

\* ------------------------------------------------------------------ bounds
MaxEpochs == 2          \* config["num_epochs"] ranges over 0..MaxEpochs
MaxPeriod == 2          \* config["save_period_in_epochs"] ranges over 1..MaxPeriod
NumTrainBatches == 2    \* batches the train dataloader yields per epoch
NumValidBatches == 2    \* batches the validation dataloader yields per epoch
MaxClock == 1           \* datetime.now() ranges over 0..MaxClock (seconds)
MaxGpuUse == 5          \* prepare_device: n_gpu_use ranges over -MaxGpuUse..MaxGpuUse
MaxGpus == 4            \* prepare_device: torch.cuda.device_count() is in 0..MaxGpus
MaxBatch == 2           \* get_token_logits: examples of a batch
MaxPositions == 2       \* get_token_logits: positions of an example
MaxSamples == 2         \* collate: samples of a batch
MaxSeqLen == 2          \* collate: tokens of a sample

\* ----------------------------------------------------------- configuration
\* config["metrics"]
MetricNames == <<"f1_micro", "f1_macro">>

\* config["checkpoint_dir"]
checkpoint_dir == "checkpoints/"

\* config["batch_size"]
batch_size == 32

\* The values metric_fn returns on the validation pass: an F1 score of 0.0
\* (the initial best value) and a positive one.
MetricValues == {0, 1}

\* The configurations of a run from scratch; lr_scheduler tells whether the
\* Trainer is given a scheduler.
Configs ==
    [num_epochs : 0..MaxEpochs,
     save_period_in_epochs : 1..MaxPeriod,
     lr_scheduler : BOOLEAN,
     start_from_checkpoint : {FALSE},
     checkpoint_name : {"none"}]

\* The name of the attribute that holds the best value of a metric.
BestAttr(metric_name) == "best_" \o metric_name

BestAttrs == {BestAttr(MetricNames[i]) : i \in 1..Len(MetricNames)}

MetricSet == {MetricNames[i] : i \in 1..Len(MetricNames)}

VARIABLES
    config,         \* the run's configuration
    start_epoch,    \* Trainer.start_epoch
    model,          \* Trainer.model: the parameters' version
    optimizer,      \* Trainer.optimizer: [step, lr]
    best,           \* the attributes best_<metric>
    metrics,        \* Trainer.metrics
    losses,         \* Trainer.losses
    pc,             \* position of the trainer in train()
    epoch,          \* loop variable of train()
    batch,          \* index of the next batch of the running pass
    running_loss,   \* running_loss of the running pass
    grads,          \* "none" or "set": the parameters' gradients
    result,         \* valid_loss_metric of the running epoch
    mi,             \* index of the metric the validation loop is at
    files,          \* the checkpoint directory: path -> checkpoint
    now,            \* the wall clock, in seconds
    run,            \* "fresh" or "resumed": how the trainer was constructed
    events,         \* history: batches processed in the running epoch
    trainEnd,       \* history: model and optimizer when _train_epoch returned
    ran,            \* history: epochs started by this call of train()
    wrote,          \* history: paths written by this call of train()
    saved,          \* history: path -> what the trainer held when it wrote it
    restored,       \* history: what the checkpoint loaded at construction held
    fnArgs,         \* arguments of a call of a helper function
    fnRet           \* <<its result>>, or <<>> before it returns

trainerVars ==
    <<config, start_epoch, model, optimizer, best, metrics, losses, pc, epoch,
      batch, running_loss, grads, result, mi, files, now, run, events,
      trainEnd, ran, wrote, saved, restored>>

vars == <<trainerVars, fnArgs, fnRet>>

NoValue == "none"

Min(a, b) == IF a <= b THEN a ELSE b

\* range(a, b)
Range(a, b) == [i \in 1..(IF b > a THEN b - a ELSE 0) |-> a + i - 1]

\* ----------------------------------------------------------------- Trainer

\* Trainer.__init__, lines 77-87: the fresh bookkeeping.
InitBest == [a \in BestAttrs |-> 0]

InitMetrics ==
    [train |-> [m \in MetricSet |-> <<>>],
     valid |-> [m \in MetricSet |-> <<>>]]

InitLosses == [train |-> <<>>, valid |-> <<>>]

\* The path _save_checkpoint writes to.
CheckpointPath(ep, save_best, suffix, time) ==
    IF save_best
    THEN checkpoint_dir \o "model_best_" \o suffix \o ".pt"
    ELSE checkpoint_dir \o "model_epoch_" \o ToString(ep) \o "_datetime-"
             \o ToString(time) \o ".pt"

\* The dictionary _save_checkpoint hands to torch.save.
Checkpoint(ep, mdl, opt, ls, ms, bst) ==
    [epoch |-> ep,
     model_state_dict |-> mdl,
     optimizer_state_dict |-> opt,
     losses |-> ls,
     metrics |-> ms,
     best_metrics |-> [a \in BestAttrs |-> bst[a]]]

\* torch.save(obj, path): the file system after the write.
TorchSave(fs, path, obj) == (path :> obj) @@ fs

\* Mutation: the resumed run repeats the checkpoint's epoch.
LoadStartEpoch_SameEpoch(checkpoint) == checkpoint.epoch

\* _load_checkpoint: the fields it assigns, from the checkpoint read.
LoadStartEpoch(checkpoint) == checkpoint.epoch + 1

LoadModel(checkpoint) == checkpoint.model_state_dict

LoadOptimizer(checkpoint) == checkpoint.optimizer_state_dict

LoadBest(checkpoint) == [a \in BestAttrs |-> checkpoint.best_metrics[a]]

LoadMetrics(checkpoint) == checkpoint.metrics

LoadLosses(checkpoint) == checkpoint.losses

\* loss_fn(cls_logits, labels).item() of a batch.
BatchLoss(mdl, b) == mdl

\* metric_fn(_logits, _targets, num_labels) on the training pass.
TrainMetrics(mdl) == [m \in MetricSet |-> mdl]

\* optimizer.step(): the parameters and the optimizer state after it.
StepModel(mdl) == mdl + 1

\* Mutation: the optimizer state is not advanced.
StepOptimizer_Skipped(opt) == opt

StepOptimizer(opt) == [opt EXCEPT !.step = @ + 1]

\* lr_scheduler.step(), when a scheduler is given.
SchedulerStep(cfg, opt) ==
    IF cfg.lr_scheduler THEN [opt EXCEPT !.lr = @ + 1] ELSE opt

\* running_loss / self.batch_size, as the fraction <<numerator, denominator>>.
EpochLoss(rl) == <<rl, batch_size>>

\* Mutation: every value is taken as a new best.
IsBest_Always(bst, metric, value) == TRUE

\* Mutation: only a strictly greater value is a new best.
IsBest_Strict(bst, metric, value) == bst[BestAttr(metric)] < value

\* The condition of line 124.
IsBest(bst, metric, value) == bst[BestAttr(metric)] <= value

\* Mutation: the period counts the epochs completed.
IsPeriodic_Completed(ep, period) == (ep + 1) % period = 0

\* The condition of line 143.
IsPeriodic(ep, period) == ep % period = 0

\* Mutation: the range includes num_epochs.
InRange_Inclusive(ep, cfg) == ep <= cfg.num_epochs

\* The condition of the for loop of line 99: range(start_epoch, num_epochs).
InRange(ep, cfg) == ep < cfg.num_epochs

FnIdle == fnArgs = <<>> /\ fnRet = <<>>

\* The trainer Trainer.__init__ constructs from scratch under configuration cfg.
TrainerFresh(cfg) ==
    /\ config = cfg
    /\ start_epoch = 0
    /\ model = 0
    /\ optimizer = [step |-> 0, lr |-> 0]
    /\ best = InitBest
    /\ metrics = InitMetrics
    /\ losses = InitLosses
    /\ pc = "ready"
    /\ epoch = 0
    /\ batch = 1
    /\ running_loss = 0
    /\ grads = "none"
    /\ result = NoValue
    /\ mi = 1
    /\ files = <<>>
    /\ now = 0
    /\ run = "fresh"
    /\ events = <<>>
    /\ trainEnd = NoValue
    /\ ran = <<>>
    /\ wrote = <<>>
    /\ saved = <<>>
    /\ restored = [losses |-> InitLosses, metrics |-> InitMetrics,
                   epoch |-> NoValue]

Init ==
    /\ \E cfg \in Configs : TrainerFresh(cfg)
    /\ FnIdle


\* Mutation: the value is put in front.
ListAppend_Front(list, value) == <<value>> \o list

\* list.append(value)
ListAppend(list, value) == Append(list, value)

\* _save_checkpoint(epoch, losses, metrics, save_best, suffix), called when the
\* trainer holds mdl, opt, ls, ms, bst and the clock reads t.
SaveCheckpoint(ep, save_best, suffix, mdl, opt, ls, ms, bst, t) ==
    LET path == CheckpointPath(ep, save_best, suffix, t) IN
    /\ files' = TorchSave(files, path, Checkpoint(ep, mdl, opt, ls, ms, bst))
    /\ wrote' = Append(wrote, path)
    /\ saved' = (path :>
                   [epoch |-> ep, model |-> mdl, optimizer |-> opt,
                    losses |-> ls, metrics |-> ms, best |-> bst]) @@ saved

\* train() is called.
TrainCall ==
    /\ pc = "ready"
    /\ pc' = "for"
    /\ epoch' = start_epoch
    /\ UNCHANGED <<config, start_epoch, model, optimizer, best, metrics, losses,
                   batch, running_loss, grads, result, mi, files, now, run,
                   events, trainEnd, ran, wrote, saved, restored, fnArgs, fnRet>>

\* Line 99, the loop has another epoch: _train_epoch begins (lines 166-170).
EpochBegin ==
    /\ pc = "for"
    /\ InRange(epoch, config)
    /\ pc' = "train_forward"
    /\ batch' = 1
    /\ running_loss' = 0
    /\ events' = <<>>
    /\ trainEnd' = NoValue
    /\ ran' = Append(ran, epoch)
    /\ UNCHANGED <<config, start_epoch, model, optimizer, best, metrics, losses,
                   epoch, grads, result, mi, files, now, run, wrote, saved,
                   restored, fnArgs, fnRet>>

\* Lines 99, 157-158: the range is exhausted and train() returns.
TrainReturn ==
    /\ pc = "for"
    /\ ~InRange(epoch, config)
    /\ pc' = "done"
    /\ UNCHANGED <<config, start_epoch, model, optimizer, best, metrics, losses,
                   epoch, batch, running_loss, grads, result, mi, files, now,
                   run, events, trainEnd, ran, wrote, saved, restored, fnArgs,
                   fnRet>>

\* Lines 171-181: the forward pass of a training batch, its loss, backward().
TrainForward ==
    /\ pc = "train_forward"
    /\ batch <= NumTrainBatches
    /\ running_loss' = running_loss + BatchLoss(model, batch)
    /\ grads' = "set"
    /\ events' = Append(events, <<"train", batch>>)
    /\ pc' = "train_step"
    /\ UNCHANGED <<config, start_epoch, model, optimizer, best, metrics, losses,
                   epoch, batch, result, mi, files, now, run, trainEnd, ran,
                   wrote, saved, restored, fnArgs, fnRet>>

\* Lines 183-188: optimizer.step() and model.zero_grad(set_to_none=True).
TrainStep ==
    /\ pc = "train_step"
    /\ model' = StepModel(model)
    /\ optimizer' = StepOptimizer(optimizer)
    /\ grads' = "none"
    /\ batch' = batch + 1
    /\ pc' = "train_forward"
    /\ UNCHANGED <<config, start_epoch, best, metrics, losses, epoch,
                   running_loss, result, mi, files, now, run, events, trainEnd,
                   ran, wrote, saved, restored, fnArgs, fnRet>>

\* Lines 190-195 and 103-111: the training batches are exhausted; the scheduler
\* steps, _train_epoch returns and train() records the loss and the metrics.
TrainEpochEnd ==
    /\ pc = "train_forward"
    /\ batch > NumTrainBatches
    /\ optimizer' = SchedulerStep(config, optimizer)
    /\ LET r == TrainMetrics(model) IN
          metrics' = [metrics EXCEPT
                         !.train = [m \in MetricSet |-> ListAppend(@[m], r[m])]]
    /\ losses' = [losses EXCEPT !.train = ListAppend(@, EpochLoss(running_loss))]
    /\ trainEnd' = [model |-> model, optimizer |-> optimizer']
    /\ pc' = "valid_batch"
    /\ batch' = 1
    /\ running_loss' = 0
    /\ UNCHANGED <<config, start_epoch, model, best, epoch, grads, result, mi,
                   files, now, run, events, ran, wrote, saved, restored, fnArgs,
                   fnRet>>

\* Lines 209-224: a validation batch, under torch.no_grad().
ValidBatch ==
    /\ pc = "valid_batch"
    /\ batch <= NumValidBatches
    /\ running_loss' = running_loss + BatchLoss(model, batch)
    /\ events' = Append(events, <<"valid", batch>>)
    /\ batch' = batch + 1
    /\ UNCHANGED <<config, start_epoch, model, optimizer, best, metrics, losses,
                   pc, epoch, grads, result, mi, files, now, run, trainEnd, ran,
                   wrote, saved, restored, fnArgs, fnRet>>

\* Lines 226-229 and 114-115: _validate_epoch returns and train() records the
\* validation loss.
ValidEpochEnd ==
    /\ pc = "valid_batch"
    /\ batch > NumValidBatches
    /\ \E r \in [MetricSet -> MetricValues] :
          result' = [loss |-> EpochLoss(running_loss), metrics |-> r]
    /\ losses' = [losses EXCEPT !.valid = ListAppend(@, EpochLoss(running_loss))]
    /\ mi' = 1
    /\ pc' = "valid_metrics"
    /\ UNCHANGED <<config, start_epoch, model, optimizer, best, metrics, epoch,
                   batch, running_loss, grads, files, now, run, events,
                   trainEnd, ran, wrote, saved, restored, fnArgs, fnRet>>

\* Lines 117-141: one iteration of the loop over the validation metrics.
ValidMetric ==
    /\ pc = "valid_metrics"
    /\ mi <= Len(MetricNames)
    /\ LET metric == MetricNames[mi]
           value == result.metrics[metric]
       IN
       /\ metrics' = [metrics EXCEPT !.valid[metric] = ListAppend(@, value)]
       /\ IF IsBest(best, metric, value)
          THEN /\ best' = [best EXCEPT ![BestAttr(metric)] = value]
               /\ SaveCheckpoint(epoch, TRUE, metric, model, optimizer, losses,
                                 metrics', best', now)
          ELSE UNCHANGED <<best, files, wrote, saved>>
    /\ mi' = mi + 1
    /\ UNCHANGED <<config, start_epoch, model, optimizer, losses, pc, epoch,
                   batch, running_loss, grads, result, now, run, events,
                   trainEnd, ran, restored, fnArgs, fnRet>>

\* Lines 143-156: the periodic checkpoint, and the end of the epoch.
EpochEnd ==
    /\ pc = "valid_metrics"
    /\ mi > Len(MetricNames)
    /\ IF IsPeriodic(epoch, config.save_period_in_epochs)
       THEN \E t \in now..Min(now + 1, MaxClock) :
               /\ now' = t
               /\ SaveCheckpoint(epoch, FALSE, NoValue, model, optimizer,
                                 losses, metrics, best, t)
       ELSE UNCHANGED <<files, wrote, saved, now>>
    /\ epoch' = epoch + 1
    /\ pc' = "for"
    /\ UNCHANGED <<config, start_epoch, model, optimizer, best, metrics, losses,
                   batch, running_loss, grads, result, mi, run, events,
                   trainEnd, ran, restored, fnArgs, fnRet>>

\* A second process: the configuration with start_from_checkpoint set,
\* checkpoint_name naming a file of the checkpoint directory, and num_epochs
\* kept or raised.
\* Trainer.__init__ (lines 54-91) and _load_checkpoint (lines 293-304).
Resume ==
    /\ pc = "done"
    /\ run = "fresh"
    /\ \E path \in DOMAIN files, n \in config.num_epochs..MaxEpochs :
          LET checkpoint == files[path] IN
          /\ config' = [config EXCEPT !.start_from_checkpoint = TRUE,
                                       !.checkpoint_name = path,
                                       !.num_epochs = n]
          /\ restored' = [losses |-> checkpoint.losses,
                          metrics |-> checkpoint.metrics,
                          epoch |-> checkpoint.epoch]
          /\ start_epoch' = LoadStartEpoch(checkpoint)
          /\ model' = LoadModel(checkpoint)
          /\ optimizer' = LoadOptimizer(checkpoint)
          /\ best' = LoadBest(checkpoint)
          /\ metrics' = LoadMetrics(checkpoint)
          /\ losses' = LoadLosses(checkpoint)
    /\ run' = "resumed"
    /\ pc' = "ready"
    /\ epoch' = 0
    /\ batch' = 1
    /\ running_loss' = 0
    /\ grads' = "none"
    /\ result' = NoValue
    /\ mi' = 1
    /\ events' = <<>>
    /\ trainEnd' = NoValue
    /\ ran' = <<>>
    /\ wrote' = <<>>
    /\ UNCHANGED <<files, now, saved, fnArgs, fnRet>>

Next ==
    \/ TrainCall
    \/ EpochBegin
    \/ TrainReturn
    \/ TrainForward
    \/ TrainStep
    \/ TrainEpochEnd
    \/ ValidBatch
    \/ ValidEpochEnd
    \/ ValidMetric
    \/ EpochEnd
    \/ Resume

Spec == Init /\ [][Next]_vars


\* The steps of train(); the code runs them one after the other.
TrainNext ==
    \/ TrainCall
    \/ EpochBegin
    \/ TrainReturn
    \/ TrainForward
    \/ TrainStep
    \/ TrainEpochEnd
    \/ ValidBatch
    \/ ValidEpochEnd
    \/ ValidMetric
    \/ EpochEnd

SpecLive == Init /\ [][Next]_vars /\ WF_vars(TrainNext)

\* ------------------------------------------------------------------ claims

BestPath(metric) == checkpoint_dir \o "model_best_" \o metric \o ".pt"

PeriodicPaths(ep) ==
    {checkpoint_dir \o "model_epoch_" \o ToString(ep) \o "_datetime-"
        \o ToString(t) \o ".pt" : t \in 0..MaxClock}

AllPeriodicPaths == UNION {PeriodicPaths(ep) : ep \in 0..MaxEpochs}

Count(seq, x) == Cardinality({i \in 1..Len(seq) : seq[i] = x})

IsPrefix(s, t) == Len(s) <= Len(t) /\ SubSeq(t, 1, Len(s)) = s

\* The histories of the trainer, as one tuple.
Histories(ls, ms) ==
    <<ls.train, ls.valid>>
        \o [i \in 1..Len(MetricNames) |-> ms.train[MetricNames[i]]]
        \o [i \in 1..Len(MetricNames) |-> ms.valid[MetricNames[i]]]

\* C1: during train() no best value ever decreases (so its value after an
\* epoch is at least its value after the epoch before), and in a run from
\* scratch every best value is at least the initial 0.0.
C1_BestNeverDecreases ==
    /\ [](run = "fresh" => \A a \in BestAttrs : best[a] >= 0)
    /\ [][run' = run => \A a \in BestAttrs : best'[a] >= best[a]]_vars

\* C1's case: a validation metric fell from one epoch to the next and the
\* best value stayed at the higher one.
C1_Witness ==
    /\ run = "fresh"
    /\ pc = "for"
    /\ epoch = 2
    /\ metrics.valid["f1_micro"] = <<1, 0>>
    /\ best[BestAttr("f1_micro")] = 1

\* C2: a trainer constructed from a checkpoint starts at the checkpoint's
\* epoch + 1 and holds the model state, optimizer state, loss history, metric
\* history and best values the saving trainer held when it wrote the file.
C2_CheckpointRoundTrip ==
    (run = "resumed" /\ pc = "ready") =>
        LET held == saved[config.checkpoint_name] IN
        /\ start_epoch = held.epoch + 1
        /\ model = held.model
        /\ optimizer = held.optimizer
        /\ losses = held.losses
        /\ metrics = held.metrics
        /\ best = held.best

\* C2's case: a trainer was constructed from the best checkpoint of a metric,
\* written at epoch 1 after two epochs of training.
C2_Witness ==
    /\ run = "resumed"
    /\ pc = "ready"
    /\ config.checkpoint_name = BestPath("f1_macro")
    /\ start_epoch = 2
    /\ model = 2 * NumTrainBatches
    /\ best[BestAttr("f1_macro")] = 1
    /\ Len(losses.valid) = 2

\* C3: in the loop over the validation metrics, the best value of the metric
\* is set to the epoch's value and model_best_<metric>.pt is written if and
\* only if the value is greater than or equal to the stored best (a tie
\* included); otherwise the best values and the files are left alone.
C3_BestSavedIffNotWorse ==
    [][(pc = "valid_metrics" /\ mi <= Len(MetricNames)) =>
          LET metric == MetricNames[mi]
              value == result.metrics[metric]
              attr == BestAttr(metric)
          IN
          IF value >= best[attr]
          THEN /\ best' = [best EXCEPT ![attr] = value]
               /\ wrote' = Append(wrote, BestPath(metric))
               /\ BestPath(metric) \in DOMAIN files'
               /\ files'[BestPath(metric)].epoch = epoch
               /\ files'[BestPath(metric)].best_metrics[attr] = value
          ELSE /\ best' = best
               /\ wrote' = wrote
               /\ files' = files]_vars

\* C3's case: one metric tied with its best value in the second epoch and its
\* best checkpoint was written again; the other fell and its best checkpoint
\* was not.
C3_Witness ==
    /\ run = "fresh"
    /\ pc = "for"
    /\ epoch = 2
    /\ metrics.valid["f1_micro"] = <<1, 1>>
    /\ metrics.valid["f1_macro"] = <<1, 0>>
    /\ Count(wrote, BestPath("f1_micro")) = 2
    /\ Count(wrote, BestPath("f1_macro")) = 1
    /\ files[BestPath("f1_micro")].epoch = 1
    /\ files[BestPath("f1_macro")].epoch = 0

\* C4: at the end of epoch e a periodic checkpoint of epoch e is written if
\* and only if e is a multiple of save_period_in_epochs (the absolute epoch
\* number, in a resumed run too), and no other step writes one.
C4_PeriodicIffMultiple ==
    [][/\ (pc = "valid_metrics" /\ mi > Len(MetricNames)) =>
             IF epoch % config.save_period_in_epochs = 0
             THEN /\ Len(wrote') = Len(wrote) + 1
                  /\ SubSeq(wrote', 1, Len(wrote)) = wrote
                  /\ wrote'[Len(wrote')] \in PeriodicPaths(epoch)
                  /\ files'[wrote'[Len(wrote')]].epoch = epoch
             ELSE wrote' = wrote /\ files' = files
       /\ ~(pc = "valid_metrics" /\ mi > Len(MetricNames)) =>
             \A path \in AllPeriodicPaths :
                /\ Count(wrote', path) <= Count(wrote, path)
                /\ path \in DOMAIN files' =>
                      (path \in DOMAIN files /\ files'[path] = files[path])
      ]_vars

\* C4's case: a run resumed from a checkpoint of epoch 0 ran epoch 1 with a
\* period of 2 and wrote no periodic checkpoint, while epoch 0 had written one.
C4_Witness ==
    /\ run = "resumed"
    /\ pc = "done"
    /\ config.save_period_in_epochs = 2
    /\ ran = <<1>>
    /\ \A i \in 1..Len(wrote) : wrote[i] \notin AllPeriodicPaths
    /\ \E path \in PeriodicPaths(0) : path \in DOMAIN files

\* C5: the histories are append-only and get one entry per completed epoch:
\* a step of train() leaves each history alone or appends one value to it,
\* and between epochs each history has one entry more per epoch run than at
\* construction (k entries after k epochs of a run from scratch).
C5_HistoriesAppendOnly ==
    /\ [](pc \in {"for", "done"} =>
             /\ \A i \in 1..Len(Histories(losses, metrics)) :
                   Len(Histories(losses, metrics)[i]) =
                      Len(Histories(restored.losses, restored.metrics)[i])
                         + Len(ran)
             /\ run = "fresh" =>
                   \A i \in 1..Len(Histories(losses, metrics)) :
                      Len(Histories(losses, metrics)[i]) = epoch)
    /\ [][run' = run =>
             \A i \in 1..Len(Histories(losses, metrics)) :
                /\ IsPrefix(Histories(losses, metrics)[i],
                            Histories(losses', metrics')[i])
                /\ Len(Histories(losses', metrics')[i])
                      <= Len(Histories(losses, metrics)[i]) + 1]_vars

\* C5's case: two epochs of a run from scratch are complete, every history
\* has two entries and the two differ.
C5_Witness ==
    /\ run = "fresh"
    /\ pc = "for"
    /\ epoch = 2
    /\ \A i \in 1..Len(Histories(losses, metrics)) :
          Len(Histories(losses, metrics)[i]) = 2
    /\ metrics.valid["f1_micro"] = <<0, 1>>
    /\ metrics.train["f1_micro"][1] # metrics.train["f1_micro"][2]
    /\ losses.train[1] # losses.train[2]

\* The batches of a pass, in the order the dataloader yields them.
PassEvents(kind, n) == [i \in 1..n |-> <<kind, i>>]

\* C6: in an epoch the training batches are processed once each, each followed
\* by one optimizer step and a gradient reset, before any validation batch;
\* then the validation batches are processed once each with no optimizer
\* step, so that the model and the optimizer end the validation pass as they
\* ended the training pass.
C6_TrainThenValidate ==
    /\ [](/\ pc = "train_forward" =>
                events = PassEvents("train", batch - 1) /\ grads = "none"
          /\ pc = "train_step" =>
                events = PassEvents("train", batch) /\ grads = "set"
          /\ pc = "valid_batch" =>
                /\ events = PassEvents("train", NumTrainBatches)
                               \o PassEvents("valid", batch - 1)
                /\ model = trainEnd.model
                /\ optimizer = trainEnd.optimizer
                /\ grads = "none"
          /\ pc = "valid_metrics" =>
                /\ events = PassEvents("train", NumTrainBatches)
                               \o PassEvents("valid", NumValidBatches)
                /\ model = trainEnd.model
                /\ optimizer = trainEnd.optimizer
                /\ grads = "none")
    /\ [][/\ pc = "train_step" =>
                /\ optimizer'.step = optimizer.step + 1
                /\ model' # model
                /\ grads' = "none"
          /\ pc = "train_forward" =>
                optimizer'.step = optimizer.step /\ model' = model
         ]_vars

\* C6's case: the second epoch's validation pass is over.
C6_Witness ==
    /\ pc = "valid_metrics"
    /\ epoch = 1
    /\ mi = 1
    /\ events = PassEvents("train", NumTrainBatches)
                   \o PassEvents("valid", NumValidBatches)
    /\ model = 2 * NumTrainBatches
    /\ optimizer.step = 2 * NumTrainBatches
    /\ trainEnd.model = model

\* C10: train() terminates; it has then run exactly the epochs start_epoch,
\* ..., num_epochs - 1, once each and in increasing order, where start_epoch
\* is 0 in a run from scratch and the checkpoint's epoch + 1 in a resumed
\* one; with start_epoch >= num_epochs it has run no epoch, written no
\* checkpoint and left the histories as they were at construction.
C10_RunsEpochRange ==
    /\ [](pc = "done" =>
             /\ ran = Range(start_epoch, config.num_epochs)
             /\ run = "fresh" => start_epoch = 0
             /\ run = "resumed" => start_epoch = restored.epoch + 1
             /\ start_epoch >= config.num_epochs =>
                   /\ ran = <<>>
                   /\ wrote = <<>>
                   /\ losses = restored.losses
                   /\ metrics = restored.metrics)
    /\ (pc # "done") ~> (pc = "done")

\* C10's case: a run resumed from a checkpoint of the last epoch returned
\* without running an epoch.
C10_Witness ==
    /\ run = "resumed"
    /\ pc = "done"
    /\ start_epoch = 2
    /\ config.num_epochs = 2
    /\ ran = <<>>
    /\ wrote = <<>>
    /\ Len(losses.train) = 2


\* The histories a checkpoint stores have n entries each.
StoredLengths(checkpoint, n) ==
    \A i \in 1..Len(Histories(checkpoint.losses, checkpoint.metrics)) :
       Len(Histories(checkpoint.losses, checkpoint.metrics)[i]) = n

\* The best values a checkpoint stores are at least every validation value
\* it stores for the metric.
StoredBestBounds(checkpoint) ==
    \A m \in MetricSet :
       \A i \in 1..Len(checkpoint.metrics.valid[m]) :
          checkpoint.best_metrics[BestAttr(m)] >= checkpoint.metrics.valid[m][i]

\* C11: in a run from scratch every checkpoint file written at epoch e, best
\* or periodic, stores loss and metric histories of e + 1 entries each and
\* best values at least every stored validation value of their metric; and a
\* trainer resumed from a checkpoint starts with every history of length
\* start_epoch.
C11_ConsistentSnapshot ==
    /\ run = "fresh" =>
          \A path \in DOMAIN files :
             /\ StoredLengths(files[path], files[path].epoch + 1)
             /\ StoredBestBounds(files[path])
    /\ (run = "resumed" /\ pc = "ready") =>
          \A i \in 1..Len(Histories(losses, metrics)) :
             Len(Histories(losses, metrics)[i]) = start_epoch

\* --------------------------------------------------------- utils/functions
\* The helpers are pure functions: each has a specification that draws the
\* arguments of one call and applies the function to them.

\* The configuration train.py runs the helpers under: the Trainer's defaults.
DefaultConfig ==
    [num_epochs |-> 1, save_period_in_epochs |-> 1, lr_scheduler |-> FALSE,
     start_from_checkpoint |-> FALSE, checkpoint_name |-> "none"]

\* Mutation: the request is not clamped to the devices available.
ClampToAvailable_Unclamped(n_gpu_use, num_gpu) == n_gpu_use

\* prepare_device, lines 54-56.
ClampToAvailable(n_gpu_use, num_gpu) ==
    IF n_gpu_use > num_gpu THEN num_gpu ELSE n_gpu_use

\* prepare_device(n_gpu_use), with torch.cuda.device_count() = num_gpu.
PrepareDevice(n_gpu_use, num_gpu) ==
    LET n1 == IF n_gpu_use > 0 /\ num_gpu = 0 THEN 0 ELSE n_gpu_use
        n2 == ClampToAvailable(n1, num_gpu)
    IN  [device |-> IF n2 > 0 THEN "cuda:0" ELSE "cpu",
         list_ids |-> Range(0, n2)]

InitDevice ==
    /\ TrainerFresh(DefaultConfig)
    /\ fnArgs \in [n_gpu_use : (0 - MaxGpuUse)..MaxGpuUse, num_gpu : 0..MaxGpus]
    /\ fnRet = <<>>

CallPrepareDevice ==
    /\ fnRet = <<>>
    /\ fnRet' = <<PrepareDevice(fnArgs.n_gpu_use, fnArgs.num_gpu)>>
    /\ UNCHANGED <<trainerVars, fnArgs>>

SpecDevice == InitDevice /\ [][CallPrepareDevice]_vars

\* C7: prepare_device returns the ids 0..min(n, g)-1 (none when n <= 0 or
\* g = 0), never more ids than devices, the CPU exactly when it returns no id
\* (always with g = 0) and cuda:0 otherwise.
C7_DeviceClamped ==
    fnRet # <<>> =>
        LET n == fnArgs.n_gpu_use
            g == fnArgs.num_gpu
            r == fnRet[1]
            k == Min(n, g)
        IN
        /\ DOMAIN r.list_ids = 1..k
        /\ \A i \in 1..k : r.list_ids[i] = i - 1
        /\ (n <= 0 \/ g = 0) => r.list_ids = <<>>
        /\ Len(r.list_ids) <= g
        /\ r.device = "cpu" <=> r.list_ids = <<>>
        /\ r.device \in {"cpu", "cuda:0"}
        /\ g = 0 => r.device = "cpu"

\* C7's case: more devices are requested than there are.
C7_Witness ==
    /\ fnRet # <<>>
    /\ fnArgs.n_gpu_use = 5
    /\ fnArgs.num_gpu = 2
    /\ fnRet[1].list_ids = <<0, 1>>
    /\ fnRet[1].device = "cuda:0"

\* The token ids of a batch and the logit vectors of its positions.
TokenIds == {0, 1}

LogitVectors == {<<0>>, <<1>>}

\* A tensor of shape (rows, cols) with entries in S.
Tensors2(rows, cols, S) == [1..rows -> [1..cols -> S]]

\* Mutation: the positions are scanned column by column.
Positions_ColumnMajor(rows, cols) ==
    [p \in 1..(rows * cols) |-> <<((p - 1) % rows) + 1, ((p - 1) \div rows) + 1>>]

\* The index pairs of a tensor of shape (rows, cols), in the order
\* torch.nonzero scans them.
Positions(rows, cols) ==
    [p \in 1..(rows * cols) |-> <<((p - 1) \div cols) + 1, ((p - 1) % cols) + 1>>]

\* torch.nonzero(data == token_id), for data of shape (rows, cols).
Nonzero(data, rows, cols, token_id) ==
    SelectSeq(Positions(rows, cols),
              LAMBDA jk : data[jk[1]][jk[2]] = token_id)

\* get_token_logits(device, data, logits, token_id), lines 74-84.
GetTokenLogits(data, logits, rows, cols, token_id) ==
    LET token_indexes == Nonzero(data, rows, cols, token_id) IN
    [i \in 1..Len(token_indexes) |->
        logits[token_indexes[i][1]][token_indexes[i][2]]]

InitLogits ==
    /\ TrainerFresh(DefaultConfig)
    /\ \E rows \in 1..MaxBatch, cols \in 1..MaxPositions :
          fnArgs \in [rows : {rows}, cols : {cols},
                      data : Tensors2(rows, cols, TokenIds),
                      logits : Tensors2(rows, cols, LogitVectors),
                      token_id : TokenIds]
    /\ fnRet = <<>>

CallGetTokenLogits ==
    /\ fnRet = <<>>
    /\ fnRet' = <<GetTokenLogits(fnArgs.data, fnArgs.logits, fnArgs.rows,
                                 fnArgs.cols, fnArgs.token_id)>>
    /\ UNCHANGED <<trainerVars, fnArgs>>

SpecLogits == InitLogits /\ [][CallGetTokenLogits]_vars

\* The positions of the batch that hold the token.
Matches ==
    {jk \in (1..fnArgs.rows) \X (1..fnArgs.cols) :
        fnArgs.data[jk[1]][jk[2]] = fnArgs.token_id}

\* Row-major order of positions.
Before(a, b) == a[1] < b[1] \/ (a[1] = b[1] /\ a[2] < b[2])

\* One row per match, the i-th row the logits of the i-th match in row-major
\* order.
OneRowPerMatch ==
    LET r == fnRet[1] IN
    /\ Len(r) = Cardinality(Matches)
    /\ \A jk \in Matches :
          r[Cardinality({m \in Matches : Before(m, jk)}) + 1]
             = fnArgs.logits[jk[1]][jk[2]]
    /\ Matches = {} => r = <<>>

\* Some example holds the token more than once.
SomeExampleRepeats ==
    \E j \in 1..fnArgs.rows :
       Cardinality({jk \in Matches : jk[1] = j}) > 1

\* Every example holds the token.
EveryExampleMatches ==
    \A j \in 1..fnArgs.rows : \E jk \in Matches : jk[1] = j

\* C8 as stated: one row per match in row-major order, no row without a
\* match, and more rows than examples whenever an example holds the token
\* more than once.
C8_AsStated ==
    fnRet # <<>> =>
        /\ OneRowPerMatch
        /\ SomeExampleRepeats => Len(fnRet[1]) > fnArgs.rows

\* C8, amended: one row per match in row-major order, no row without a match,
\* and more rows than examples when every example holds the token and one
\* holds it more than once.
C8_OneRowPerMatch ==
    fnRet # <<>> =>
        /\ OneRowPerMatch
        /\ (SomeExampleRepeats /\ EveryExampleMatches)
              => Len(fnRet[1]) > fnArgs.rows

\* C8's case: the first example holds the token twice and the second once;
\* the rows are the three positions' logits in row-major order.
C8_Witness ==
    /\ fnRet # <<>>
    /\ fnArgs.token_id = 1
    /\ fnArgs.data = <<<<1, 1>>, <<0, 1>>>>
    /\ fnArgs.logits = <<<<<<0>>, <<1>>>>, <<<<1>>, <<0>>>>>>
    /\ fnRet[1] = <<<<0>>, <<1>>, <<0>>>>

\* The tokens and the labels of the samples.
SampleTokens == {1, 2}

\* The labels of a sample: one label (a column), or the labels of the two
\* columns of a table.
SampleLabels == {<<0>>, <<1>>, <<0, 1>>}

SeqsUpTo(S, lo, hi) == UNION {[1..n -> S] : n \in lo..hi}

Samples == [data : SeqsUpTo(SampleTokens, 0, MaxSeqLen),
            labels : SampleLabels]

MaxOf(S) == CHOOSE x \in S : \A y \in S : y <= x

\* Mutation: the short sequences are padded in front.
PadSequence_Left(seqs) ==
    LET T == MaxOf({Len(seqs[b]) : b \in 1..Len(seqs)}) IN
    [rows |-> T, cols |-> Len(seqs),
     v |-> [t \in 1..T |-> [b \in 1..Len(seqs) |->
              IF t > T - Len(seqs[b]) THEN seqs[b][t - (T - Len(seqs[b]))]
              ELSE 0]]]

\* torch.nn.utils.rnn.pad_sequence(seqs): a tensor of shape (T, B), T the
\* longest length, padded with zeros.
PadSequence(seqs) ==
    LET T == MaxOf({Len(seqs[b]) : b \in 1..Len(seqs)}) IN
    [rows |-> T, cols |-> Len(seqs),
     v |-> [t \in 1..T |-> [b \in 1..Len(seqs) |->
              IF t <= Len(seqs[b]) THEN seqs[b][t] ELSE 0]]]

\* Tensor.T
Transpose(x) ==
    [rows |-> x.cols, cols |-> x.rows,
     v |-> [i \in 1..x.cols |-> [j \in 1..x.rows |-> x.v[j][i]]]]

\* torch.cat(seqs) of one-dimensional tensors.
RECURSIVE TorchCat(_)
TorchCat(seqs) ==
    IF seqs = <<>> THEN <<>> ELSE Head(seqs) \o TorchCat(Tail(seqs))

\* collate(samples), lines 29-35.
Collate(samples) ==
    [data |-> Transpose(PadSequence([i \in 1..Len(samples) |-> samples[i].data])),
     labels |-> TorchCat([i \in 1..Len(samples) |-> samples[i].labels])]

InitCollate ==
    /\ TrainerFresh(DefaultConfig)
    /\ \E n \in 1..MaxSamples : fnArgs \in [1..n -> Samples]
    /\ fnRet = <<>>

CallCollate ==
    /\ fnRet = <<>>
    /\ fnRet' = <<Collate(fnArgs)>>
    /\ UNCHANGED <<trainerVars, fnArgs>>

SpecCollate == InitCollate /\ [][CallCollate]_vars

\* Every row of the data is a sample's tokens followed by zeros up to the
\* longest length, one row per sample.
PaddedRows ==
    LET r == fnRet[1]
        longest == MaxOf({Len(fnArgs[i].data) : i \in 1..Len(fnArgs)})
    IN
    /\ r.data.rows = Len(fnArgs)
    /\ r.data.cols = longest
    /\ Len(r.data.v) = Len(fnArgs)
    /\ \A i \in 1..Len(fnArgs) :
          /\ Len(r.data.v[i]) = longest
          /\ SubSeq(r.data.v[i], 1, Len(fnArgs[i].data)) = fnArgs[i].data
          /\ \A k \in (Len(fnArgs[i].data) + 1)..longest : r.data.v[i][k] = 0

RECURSIVE SumLabels(_, _)
SumLabels(samples, n) ==
    IF n = 0 THEN 0 ELSE Len(samples[n].labels) + SumLabels(samples, n - 1)

\* C9 as stated: the rows are padded to the longest length, one row per
\* sample, and there are as many labels as samples.
C9_AsStated ==
    fnRet # <<>> =>
        /\ PaddedRows
        /\ Len(fnRet[1].labels) = Len(fnArgs)

\* C9, amended: the rows are padded to the longest length, one row per
\* sample, and there are as many labels as the samples hold together, each
\* sample's labels in order after those of the samples before it; as many
\* labels as samples when every sample holds one label.
C9_PaddedAndFlattened ==
    fnRet # <<>> =>
        /\ PaddedRows
        /\ Len(fnRet[1].labels) = SumLabels(fnArgs, Len(fnArgs))
        /\ \A i \in 1..Len(fnArgs) :
              SubSeq(fnRet[1].labels,
                     SumLabels(fnArgs, i - 1) + 1,
                     SumLabels(fnArgs, i)) = fnArgs[i].labels
        /\ (\A i \in 1..Len(fnArgs) : Len(fnArgs[i].labels) = 1)
              => Len(fnRet[1].labels) = Len(fnArgs)

\* C9's case: a one-token sample with two labels is padded to the length of a
\* two-token sample with one label.
C9_Witness ==
    /\ fnRet # <<>>
    /\ fnArgs = <<[data |-> <<2>>, labels |-> <<0, 1>>],
                  [data |-> <<1, 2>>, labels |-> <<0>>]>>
    /\ fnRet[1].data.v = <<<<2, 0>>, <<1, 2>>>>
    /\ fnRet[1].labels = <<0, 1, 0>>

====
